---- MODULE Spec2Model ----
(***************************************************************************)
(* Model of the sample capture and time-alignment pipeline of              *)
(* src/src/App.tsx: createAnalyserWithDataSink, gatherData (the sampling   *)
(* loop driven by requestAnimationFrame), clearData (the reconciler) and   *)
(* drawData (the render pass on the shared canvas).                        *)
(*                                                                         *)
(* Time.  Every time value (aCtx.currentTime, timeStart, endTime, the keys *)
(* of dataMap) is an integer number of sample periods, so that             *)
(* frameTimeInc = 1/sampleRate is 1 and a whole second is sampleRate       *)
(* units.  The audio clock only takes such values (it moves by render      *)
(* quanta of whole samples).  Arithmetic is exact: the rounding of IEEE    *)
(* doubles is not modelled.                                                *)
(***************************************************************************)
EXTENDS Integers, Sequences, FiniteSets, TLC

VARIABLES
    currentTime,   \* aCtx.currentTime
    sinks,         \* the DataSink of every trigger so far, in trigger order
    loops,         \* per sink: the state of its gatherData recursion
    rafQueue,      \* callbacks handed to requestAnimationFrame for the next frame
    frameQueue,    \* callbacks of the frame being run, not yet called
    drawLog,       \* the render passes on the canvas, oldest first
    rec,           \* a DataSink on which clearData is exercised on its own
    enum           \* the loop of clearData run over rec's dataMap in any order

vars == <<currentTime, sinks, loops, rafQueue, frameQueue, drawLog, rec, enum>>

----------------------------------------------------------------------------
(* Bounds of the model *)

\* dataSink.maxBufferIndex, 100 in the source, scaled down.
MaxBufferIndex == 2
\* analyser.frequencyBinCount (fftSize / 2 = 1024 in the source), scaled down.
BufferLength == 2
\* Number of instrument presses in one behaviour.
MaxSinks == 2
\* Latest clock value at which the hi-hat is still pressed.
TriggerWindow == 1
\* Largest capacity, sample rate and timeStart clearData is exercised with.
MaxFrames == 3
MaxRate == 4
MaxT == 4

----------------------------------------------------------------------------
(* Program constants.  The sampling loop is modelled at a rate of 10       *)
(* samples per second, so that the decays 0.2 s and 0.3 s are 2 and 3       *)
(* sample periods.                                                          *)

\* aCtx.sampleRate
SampleRate == 10
\* params.decay: 0.2 (kick, clap, snare)
KickDecay == 2
\* tEnd = tNow + 0.3 (hi-hat)
HiHatDecay == 3

MaxTime == HiHatDecay + TriggerWindow

Instruments == {"kick", "hihat", "clap", "snare"}
Decay(inst) == IF inst = "hihat" THEN HiHatDecay ELSE KickDecay

\* Whole seconds as sample periods at rate sr.
Sec(n, sr) == n * sr

\* What analyser.getByteTimeDomainData puts in a buffer of length w.  In the
\* sampling loop the analyser taps the graph of one press: the bytes are the
\* samples of that press's waveform, fixed by its first sample (signal) and
\* the time since the press.
Wave(signal, n) == (signal + 10 * n) % 256
Signals == {10, 30}
Read(signal, tNow, time, w) == [j \in 1..w |-> Wave(signal, (time - tNow) + (j - 1))]
\* The reads clearData is exercised with on its own: any of a few waveforms.
RecReads(w) == { Read(b, 0, 0, w) : b \in {10, 30, 50} }

----------------------------------------------------------------------------
(* createAnalyserWithDataSink *)

\* The loop that fills rawData run with i <= maxBufferIndex: one frame more.
NewDataSink_OneMore(sr, bufferLength, maxBufferIndex) ==
    [ sampleRate     |-> sr,
      bufferLength   |-> bufferLength,
      maxBufferIndex |-> maxBufferIndex,
      rawData        |-> [i \in 1..(maxBufferIndex + 1) |->
                             [ timeStart |-> Sec(-1, sr),
                               data      |-> [j \in 1..bufferLength |-> 0] ]],
      data           |-> <<>> ]

\* The dataSink literal and the loop that fills rawData.
NewDataSink(sr, bufferLength, maxBufferIndex) ==
    [ sampleRate     |-> sr,
      bufferLength   |-> bufferLength,
      maxBufferIndex |-> maxBufferIndex,
      rawData        |-> [i \in 1..maxBufferIndex |->
                             [ timeStart |-> Sec(-1, sr),
                               data      |-> [j \in 1..bufferLength |-> 0] ]],
      data           |-> <<>> ]

createAnalyserWithDataSink ==
    NewDataSink(SampleRate, BufferLength, MaxBufferIndex)

----------------------------------------------------------------------------
(* clearData *)

\* dataMap is a JavaScript object: its keys in insertion order, and the
\* value of each key.
EmptyMap == [keys |-> <<>>, val |-> <<>>]

KeyIndex(m, t) == CHOOSE i \in 1..Len(m.keys) : m.keys[i] = t

\* dataMap[time] = value: a new key goes last, an old key keeps its place.
MapSet(m, t, v) ==
    IF \E i \in 1..Len(m.keys) : m.keys[i] = t
    THEN [m EXCEPT !.val[KeyIndex(m, t)] = v]
    ELSE [keys |-> Append(m.keys, t), val |-> Append(m.val, v)]

\* The inner loop with time advanced before the store instead of after it.
RECURSIVE AddFrame_LateStore(_, _, _, _)
AddFrame_LateStore(m, frame, j, bufferLength) ==
    IF j > bufferLength THEN m
    ELSE AddFrame_LateStore(MapSet(m, frame.timeStart + j, frame.data[j]),
                            frame, j + 1, bufferLength)

\* The inner loop over j: the samples of one frame, one period apart.
RECURSIVE AddFrame(_, _, _, _)
AddFrame(m, frame, j, bufferLength) ==
    IF j > bufferLength THEN m
    ELSE AddFrame(MapSet(m, frame.timeStart + (j - 1), frame.data[j]),
                  frame, j + 1, bufferLength)

\* The outer loop without the test that skips the frames with timeStart < 0.
RECURSIVE BuildMap_NoSkip(_, _, _)
BuildMap_NoSkip(sink, i, m) ==
    IF i > Len(sink.rawData) THEN m
    ELSE BuildMap_NoSkip(sink, i + 1,
                         AddFrame(m, sink.rawData[i], 1, sink.bufferLength))

\* The outer loop over i, which skips the frames with timeStart < 0.
RECURSIVE BuildMap(_, _, _)
BuildMap(sink, i, m) ==
    IF i > Len(sink.rawData) THEN m
    ELSE IF sink.rawData[i].timeStart < 0
         THEN BuildMap(sink, i + 1, m)
         ELSE BuildMap(sink, i + 1,
                       AddFrame(m, sink.rawData[i], 1, sink.bufferLength))

dataMap(sink) == BuildMap(sink, 1, EmptyMap)

\* A key is the string of time / sampleRate seconds.  It is an array index
\* when that is a whole number of seconds >= 0.
IsIndexKey(t, sr) == t >= 0 /\ t % sr = 0

RECURSIVE SortAsc(_)
SortAsc(S) ==
    IF S = {} THEN <<>>
    ELSE LET lo == CHOOSE x \in S : \A y \in S : x <= y
         IN  <<lo>> \o SortAsc(S \ {lo})

\* Object.entries(dataMap): the array-index keys in ascending order, then the
\* other keys in insertion order; parseFloat gives each key's time back.
ObjectEntries(m, sr) ==
    LET idx  == { m.keys[i] : i \in { k \in 1..Len(m.keys) : IsIndexKey(m.keys[k], sr) } }
        rest == SelectSeq(m.keys, LAMBDA t : ~IsIndexKey(t, sr))
        ord  == SortAsc(idx) \o rest
    IN  [i \in 1..Len(ord) |-> [fTime |-> ord[i], value |-> m.val[KeyIndex(m, ord[i])]]]

\* The loop body with the window moved by one epsilon instead of two.
ThinStep_HalfAdvance(st, entry, epsilon) ==
    IF entry.fTime >= st.start /\ entry.fTime <= st.end
    THEN [ start |-> st.start + epsilon,
           end   |-> st.end + epsilon,
           out   |-> Append(st.out, entry.value),
           taken |-> Append(st.taken, entry.fTime) ]
    ELSE st

\* The loop body with the two += statements after the if block instead of in
\* it: the window moves on every entry.
ThinStep_AlwaysAdvance(st, entry, epsilon) ==
    [ start |-> st.start + 2 * epsilon,
      end   |-> st.end + 2 * epsilon,
      out   |-> IF entry.fTime >= st.start /\ entry.fTime <= st.end
                THEN Append(st.out, entry.value) ELSE st.out,
      taken |-> IF entry.fTime >= st.start /\ entry.fTime <= st.end
                THEN Append(st.taken, entry.fTime) ELSE st.taken ]

\* One pass of the loop over entries: st holds start, end and what was
\* pushed so far (out: the values, taken: the times they were keyed by).
ThinStep(st, entry, epsilon) ==
    IF entry.fTime >= st.start /\ entry.fTime <= st.end
    THEN [ start |-> st.start + 2 * epsilon,
           end   |-> st.end + 2 * epsilon,
           out   |-> Append(st.out, entry.value),
           taken |-> Append(st.taken, entry.fTime) ]
    ELSE st

RECURSIVE Thin(_, _, _, _)
Thin(st, entries, i, epsilon) ==
    IF i > Len(entries) THEN st
    ELSE Thin(ThinStep(st, entries[i], epsilon), entries, i + 1, epsilon)

\* start and end before the loop: the window around rawData[0].timeStart.
Window(sink, epsilon) ==
    [ start |-> sink.rawData[1].timeStart - epsilon,
      end   |-> sink.rawData[1].timeStart + epsilon,
      out   |-> <<>>,
      taken |-> <<>> ]

\* The state of the loop of clearData when it ends.
Thinned(sink) ==
    Thin(Window(sink, 1), ObjectEntries(dataMap(sink), sink.sampleRate), 1, 1)

clearData(sink) == [sink EXCEPT !.data = Thinned(sink).out]

----------------------------------------------------------------------------
(* drawData: a render pass clears the canvas and plots dataSink.data. *)

drawData(log, id, sink) == Append(log, [sink |-> id, plot |-> sink.data])

----------------------------------------------------------------------------
(* gatherData *)

\* The two statements that record a frame: rawData[currentIndex].timeStart
\* = aCtx.currentTime, and getByteTimeDomainData into rawData[currentIndex].data.
WriteFrame(sink, currentIndex, time, bytes) ==
    [sink EXCEPT !.rawData[currentIndex + 1] = [timeStart |-> time, data |-> bytes]]

\* gatherData with the return of its terminal branch left out: after
\* clearData and drawData the call goes on to record a frame and to request
\* the next one.
gatherData_NoReturn(S, L, id, endTime, currentIndex, bytes) ==
    LET stop == currentTime >= endTime \/ currentIndex > S[id].maxBufferIndex
        S1   == IF stop THEN [S EXCEPT ![id] = clearData(S[id])] ELSE S
        L1   == IF stop THEN [L EXCEPT ![id].clears = @ + 1] ELSE L
    IN  /\ drawLog' = IF stop THEN drawData(drawLog, id, S1[id]) ELSE drawLog
        /\ IF currentIndex + 1 > Len(S[id].rawData)
           THEN /\ sinks' = S1
                /\ loops' = [L1 EXCEPT ![id] = [@ EXCEPT !.pc = "TypeError",
                                                         !.currentIndex = currentIndex]]
                /\ rafQueue' = rafQueue
           ELSE /\ sinks' = [S1 EXCEPT ![id] =
                                WriteFrame(S1[id], currentIndex, currentTime, bytes)]
                /\ loops' = [L1 EXCEPT ![id] = [@ EXCEPT !.pc = "sampling",
                                                         !.currentIndex = currentIndex,
                                                         !.writes = @ + 1]]
                /\ rafQueue' = Append(rafQueue,
                                      [ sink         |-> id,
                                        endTime      |-> endTime,
                                        currentIndex |-> currentIndex + 1 ])

\* gatherData with the deadline tested by > instead of >=.
gatherData_StrictDeadline(S, L, id, endTime, currentIndex, bytes) ==
    IF currentTime > endTime \/ currentIndex > S[id].maxBufferIndex
    THEN /\ sinks' = [S EXCEPT ![id] = clearData(S[id])]
         /\ drawLog' = drawData(drawLog, id, clearData(S[id]))
         /\ loops' = [L EXCEPT ![id] = [@ EXCEPT !.pc = "done",
                                                 !.currentIndex = currentIndex,
                                                 !.clears = @ + 1]]
         /\ rafQueue' = rafQueue
    ELSE IF currentIndex + 1 > Len(S[id].rawData)
         THEN /\ sinks' = S
              /\ loops' = [L EXCEPT ![id] = [@ EXCEPT !.pc = "TypeError",
                                                      !.currentIndex = currentIndex]]
              /\ UNCHANGED <<rafQueue, drawLog>>
         ELSE /\ sinks' = [S EXCEPT ![id] =
                              WriteFrame(S[id], currentIndex, currentTime, bytes)]
              /\ loops' = [L EXCEPT ![id] = [@ EXCEPT !.pc = "sampling",
                                                      !.currentIndex = currentIndex,
                                                      !.writes = @ + 1]]
              /\ rafQueue' = Append(rafQueue,
                                    [ sink         |-> id,
                                      endTime      |-> endTime,
                                      currentIndex |-> currentIndex + 1 ])
              /\ drawLog' = drawLog

\* gatherData with the call of drawData left out of its terminal branch.
gatherData_NoDraw(S, L, id, endTime, currentIndex, bytes) ==
    IF currentTime >= endTime \/ currentIndex > S[id].maxBufferIndex
    THEN /\ sinks' = [S EXCEPT ![id] = clearData(S[id])]
         /\ drawLog' = drawLog
         /\ loops' = [L EXCEPT ![id] = [@ EXCEPT !.pc = "done",
                                                 !.currentIndex = currentIndex,
                                                 !.clears = @ + 1]]
         /\ rafQueue' = rafQueue
    ELSE IF currentIndex + 1 > Len(S[id].rawData)
         THEN /\ sinks' = S
              /\ loops' = [L EXCEPT ![id] = [@ EXCEPT !.pc = "TypeError",
                                                      !.currentIndex = currentIndex]]
              /\ UNCHANGED <<rafQueue, drawLog>>
         ELSE /\ sinks' = [S EXCEPT ![id] =
                              WriteFrame(S[id], currentIndex, currentTime, bytes)]
              /\ loops' = [L EXCEPT ![id] = [@ EXCEPT !.pc = "sampling",
                                                      !.currentIndex = currentIndex,
                                                      !.writes = @ + 1]]
              /\ rafQueue' = Append(rafQueue,
                                    [ sink         |-> id,
                                      endTime      |-> endTime,
                                      currentIndex |-> currentIndex + 1 ])
              /\ drawLog' = drawLog

\* One call gatherData(analyser, dataSink, endTime, currentIndex) on sink id
\* of S, whose loop state is in L; bytes is what the analyser returns.
\* rawData[currentIndex] is undefined when currentIndex = rawData.length:
\* the assignment to its timeStart then throws a TypeError, and the callback
\* ends there.
gatherData(S, L, id, endTime, currentIndex, bytes) ==
    IF currentTime >= endTime \/ currentIndex > S[id].maxBufferIndex
    THEN /\ sinks' = [S EXCEPT ![id] = clearData(S[id])]
         /\ drawLog' = drawData(drawLog, id, clearData(S[id]))
         /\ loops' = [L EXCEPT ![id] = [@ EXCEPT !.pc = "done",
                                                 !.currentIndex = currentIndex,
                                                 !.clears = @ + 1]]
         /\ rafQueue' = rafQueue
    ELSE IF currentIndex + 1 > Len(S[id].rawData)
         THEN /\ sinks' = S
              /\ loops' = [L EXCEPT ![id] = [@ EXCEPT !.pc = "TypeError",
                                                      !.currentIndex = currentIndex]]
              /\ UNCHANGED <<rafQueue, drawLog>>
         ELSE /\ sinks' = [S EXCEPT ![id] =
                              WriteFrame(S[id], currentIndex, currentTime, bytes)]
              /\ loops' = [L EXCEPT ![id] = [@ EXCEPT !.pc = "sampling",
                                                      !.currentIndex = currentIndex,
                                                      !.writes = @ + 1]]
              /\ rafQueue' = Append(rafQueue,
                                    [ sink         |-> id,
                                      endTime      |-> endTime,
                                      currentIndex |-> currentIndex + 1 ])
              /\ drawLog' = drawLog

----------------------------------------------------------------------------
(* The instrument handlers: onKickPress, onHiHatPress, onClapPress,        *)
(* onSnarePress.  Each creates a sink, reads tNow and calls gatherData     *)
(* with index 0 before it returns.  A click is a task of its own: it does  *)
(* not run in the middle of a frame's callbacks.  The four handlers differ *)
(* in their synthesis graphs, which are not modelled, and in params.decay. *)
(* The Clear button and the toggles, which redraw the empty canvas, are    *)
(* not modelled either: drawLog holds the render passes of drawData only.  *)

NewLoop(signal, tNow, endTime) ==
    [ signal |-> signal, tNow |-> tNow, endTime |-> endTime,
      pc |-> "created", currentIndex |-> 0, writes |-> 0, clears |-> 0 ]

Press(inst, decay) ==
    /\ frameQueue = <<>>
    /\ Len(sinks) < MaxSinks
    /\ currentTime + decay <= MaxTime
    /\ LET tNow == currentTime
           id   == Len(sinks) + 1
       IN  \E signal \in Signals :
              gatherData(Append(sinks, createAnalyserWithDataSink),
                         Append(loops, NewLoop(signal, tNow, tNow + decay)),
                         id, tNow + decay, 0,
                         Read(signal, tNow, currentTime, BufferLength))
    /\ UNCHANGED <<currentTime, frameQueue, rec, enum>>

onPress == \E inst \in Instruments : Press(inst, Decay(inst))

----------------------------------------------------------------------------
(* The browser: the audio clock and the animation frames *)

\* The audio clock moves between tasks, never inside one: the control
\* thread's currentTime is set by a task the rendering thread queues, so every
\* read inside one handler or one frame's callbacks gives the same value.
AdvanceClock ==
    /\ frameQueue = <<>>
    /\ currentTime < MaxTime
    /\ currentTime' = currentTime + 1
    /\ UNCHANGED <<sinks, loops, rafQueue, frameQueue, drawLog, rec, enum>>

\* A frame starts: the callbacks requested so far are the ones it runs;
\* requests made while it runs wait for the next frame.
BeginFrame ==
    /\ frameQueue = <<>>
    /\ rafQueue # <<>>
    /\ frameQueue' = rafQueue
    /\ rafQueue' = <<>>
    /\ UNCHANGED <<currentTime, sinks, loops, drawLog, rec, enum>>

\* The frame calls its next callback: () => gatherData(..., currentIndex + 1).
RunCallback ==
    /\ frameQueue # <<>>
    /\ frameQueue' = Tail(frameQueue)
    /\ LET cb == Head(frameQueue)
       IN  gatherData(sinks, loops, cb.sink, cb.endTime, cb.currentIndex,
                      Read(loops[cb.sink].signal, loops[cb.sink].tNow,
                           currentTime, BufferLength))
    /\ UNCHANGED <<currentTime, rec, enum>>

NoRec == [none |-> TRUE]

Init ==
    /\ currentTime = 0
    /\ sinks = <<>>
    /\ loops = <<>>
    /\ rafQueue = <<>>
    /\ frameQueue = <<>>
    /\ drawLog = <<>>
    /\ rec = NoRec
    /\ enum = NoRec

Next == onPress \/ AdvanceClock \/ BeginFrame \/ RunCallback

Spec == Init /\ [][Next]_vars

----------------------------------------------------------------------------
(* clearData on its own.  rec.sink is a collector of any capacity, frame   *)
(* width and sample rate within the bounds, its frames recorded from index *)
(* 0 upward, clearData run after each; rec.fresh tells that data is        *)
(* clearData's output for the frames as they are now.                      *)

Populated(sink) == Cardinality({ i \in 1..Len(sink.rawData) : sink.rawData[i].timeStart >= 0 })

RecInit ==
    /\ currentTime = 0
    /\ sinks = <<>>
    /\ loops = <<>>
    /\ rafQueue = <<>>
    /\ frameQueue = <<>>
    /\ drawLog = <<>>
    /\ enum = NoRec
    /\ \E sr \in 1..MaxRate, w \in 1..BufferLength, c \in 1..MaxFrames :
          rec = [sink |-> NewDataSink(sr, w, c), fresh |-> FALSE]

\* A tick records the next frame of rec.sink.
RecSample ==
    /\ rec.fresh
    /\ Populated(rec.sink) < rec.sink.maxBufferIndex
    /\ \E t \in 0..MaxT, bytes \in RecReads(rec.sink.bufferLength) :
          rec' = [sink  |-> WriteFrame(rec.sink, Populated(rec.sink), t, bytes),
                  fresh |-> FALSE]
    /\ UNCHANGED <<currentTime, sinks, loops, rafQueue, frameQueue, drawLog, enum>>

RecClear ==
    /\ ~rec.fresh
    /\ rec' = [sink |-> clearData(rec.sink), fresh |-> TRUE]
    /\ UNCHANGED <<currentTime, sinks, loops, rafQueue, frameQueue, drawLog, enum>>

RecNext == RecSample \/ RecClear

SpecRec == RecInit /\ [][RecNext]_vars

----------------------------------------------------------------------------
(* The loop of clearData over the entries of dataMap taken in an arbitrary *)
(* order: enum.pending are the entries not yet visited, enum.st the state  *)
(* of the loop.                                                            *)

OrderInit ==
    /\ currentTime = 0
    /\ sinks = <<>>
    /\ loops = <<>>
    /\ rafQueue = <<>>
    /\ frameQueue = <<>>
    /\ drawLog = <<>>
    /\ enum = NoRec
    /\ \E sr \in 1..MaxRate, w \in 1..BufferLength :
          rec = [sink |-> NewDataSink(sr, w, MaxFrames), fresh |-> FALSE]

OrderSample ==
    /\ enum = NoRec
    /\ Populated(rec.sink) < rec.sink.maxBufferIndex
    /\ \E t \in 0..MaxT, bytes \in { Read(10, 0, 0, rec.sink.bufferLength) } :
          /\ rec' = [sink  |-> WriteFrame(rec.sink, Populated(rec.sink), t, bytes),
                     fresh |-> FALSE]
    /\ UNCHANGED <<currentTime, sinks, loops, rafQueue, frameQueue, drawLog, enum>>

\* clearData begins: dataMap is built, start and end are set.
OrderBegin ==
    /\ enum = NoRec
    /\ LET entries == ObjectEntries(dataMap(rec.sink), rec.sink.sampleRate)
       IN  enum' = [ pending |-> { entries[i] : i \in 1..Len(entries) },
                     st      |-> Window(rec.sink, 1) ]
    /\ UNCHANGED <<currentTime, sinks, loops, rafQueue, frameQueue, drawLog, rec>>

\* The loop visits one more entry, whichever the enumeration gives next.
OrderStep ==
    /\ enum # NoRec
    /\ \E e \in enum.pending :
          enum' = [ pending |-> enum.pending \ {e},
                    st      |-> ThinStep(enum.st, e, 1) ]
    /\ UNCHANGED <<currentTime, sinks, loops, rafQueue, frameQueue, drawLog, rec>>

\* The loop is over: dataSink.data = outputData.
OrderEnd ==
    /\ enum # NoRec
    /\ enum.pending = {}
    /\ ~rec.fresh
    /\ rec' = [sink |-> [rec.sink EXCEPT !.data = enum.st.out], fresh |-> TRUE]
    /\ UNCHANGED <<currentTime, sinks, loops, rafQueue, frameQueue, drawLog, enum>>

OrderNext == OrderSample \/ OrderBegin \/ OrderStep \/ OrderEnd

SpecOrder == OrderInit /\ [][OrderNext]_vars

\* The same program with params.decay of the pressed instrument an input,
\* 0 included.
PressWithDecay == \E d \in {0, KickDecay, HiHatDecay} : Press("kick", d)

NextDecay == PressWithDecay \/ AdvanceClock \/ BeginFrame \/ RunCallback

SpecDecay == Init /\ [][NextDecay]_vars

----------------------------------------------------------------------------
(* Properties of the sampling loop *)

Ids == 1..Len(sinks)

\* A callback of sink id waits in the next frame's list or in this frame's.
Pending(id) ==
    \/ \E i \in 1..Len(rafQueue) : rafQueue[i].sink = id
    \/ \E i \in 1..Len(frameQueue) : frameQueue[i].sink = id

Drawn(id) == \E i \in 1..Len(drawLog) : drawLog[i].sink = id

Unpopulated(sink, i) ==
    /\ sink.rawData[i].timeStart = Sec(-1, sink.sampleRate)
    /\ sink.rawData[i].data = [j \in 1..sink.bufferLength |-> 0]

\* C1 (as claimed): every run of the sampling loop ends with clearData and
\* then drawData: a sink with no tick left to run has been reconciled and
\* rendered, whether the clock reached the deadline or the ring filled first.
C1_EveryRunReconciles ==
    \A id \in Ids :
        ~Pending(id) => /\ loops[id].pc = "done"
                        /\ loops[id].clears = 1
                        /\ Drawn(id)

\* C8 (as claimed): every tick that goes on to record a frame addresses a
\* frame of the ring: its index is in 0 .. capacity - 1.
C8_WritesInsideRing ==
    \A id \in Ids :
        loops[id].pc \in {"sampling", "TypeError"}
            => loops[id].currentIndex \in 0..(sinks[id].maxBufferIndex - 1)

\* C7: a collector holds exactly maxBufferIndex frames of bufferLength
\* samples each in every state, from its creation through every tick and
\* through clearData; a frame no tick has written yet still has timeStart
\* -1 (second) and zero samples, and data is empty until clearData has run,
\* as they are right after createAnalyserWithDataSink.
C7_RingShape ==
    /\ Len(createAnalyserWithDataSink.rawData) = MaxBufferIndex
    /\ \A i \in 1..Len(createAnalyserWithDataSink.rawData) :
           Unpopulated(createAnalyserWithDataSink, i)
    /\ createAnalyserWithDataSink.data = <<>>
    /\ \A id \in Ids :
          /\ Len(sinks[id].rawData) = sinks[id].maxBufferIndex
          /\ sinks[id].maxBufferIndex = MaxBufferIndex
          /\ \A i \in 1..Len(sinks[id].rawData) :
                /\ Len(sinks[id].rawData[i].data) = sinks[id].bufferLength
                /\ i > loops[id].writes => Unpopulated(sinks[id], i)
          /\ loops[id].pc # "done" => sinks[id].data = <<>>

\* C7's case: a collector whose every frame was written, after clearData.
C7_Witness ==
    \E id \in Ids : /\ loops[id].pc = "done"
                    /\ loops[id].writes = MaxBufferIndex
                    /\ Len(sinks[id].data) > 0

\* C9: clearData runs at most once per collector, and only on the tick that
\* ends its loop; from then on the collector has no tick requested and
\* neither its frames nor its data change.
C9_ReconciledOnce ==
    /\ [](\A id \in Ids :
            /\ loops[id].clears <= 1
            /\ (loops[id].clears = 1) <=> (loops[id].pc = "done")
            /\ loops[id].pc = "done" => ~Pending(id))
    /\ [][\A id \in Ids :
            loops[id].pc = "done"
                => /\ sinks'[id] = sinks[id]
                   /\ loops'[id] = loops[id]
                   /\ ~Pending(id)']_vars

\* C9's case: a collector is done, after frames of it were written, while
\* another collector has gone on sampling after it.
C9_Witness ==
    \E a \in Ids, b \in Ids :
        /\ loops[a].pc = "done" /\ loops[a].writes >= 1
        /\ loops[b].pc = "sampling" /\ loops[b].writes >= 2
        /\ sinks[b].rawData[loops[b].writes].timeStart >= loops[a].endTime

C6_ZeroDecayStopsAtOnce ==
    \A id \in Ids :
        loops[id].endTime = loops[id].tNow
            => /\ loops[id].pc = "done"
               /\ loops[id].currentIndex = 0
               /\ loops[id].writes = 0
               /\ \A i \in 1..Len(sinks[id].rawData) : Unpopulated(sinks[id], i)
               /\ ~Pending(id)
               /\ loops[id].clears = 1
               /\ sinks[id].data = <<>>
               /\ Drawn(id)

\* C6's case: a press with decay 0 has happened while another loop runs.
C6_Witness ==
    \E id \in Ids, other \in Ids :
        /\ loops[id].endTime = loops[id].tNow
        /\ loops[id].pc = "done"
        /\ loops[other].pc = "sampling"

----------------------------------------------------------------------------
(* Properties of clearData *)

\* The k-th pushed sample (k = 0, 1, ...) was keyed by a time in
\* [t0 + (2k-1) epsilon, t0 + (2k+1) epsilon], and the times increase.
InBuckets(sink, taken) ==
    LET t0 == sink.rawData[1].timeStart
    IN  \A n \in 1..Len(taken) :
           /\ taken[n] >= t0 + (2 * (n - 1) - 1)
           /\ taken[n] <= t0 + (2 * (n - 1) + 1)
           /\ n > 1 => taken[n - 1] < taken[n]

\* C2: whatever the order in which the entries of dataMap are visited, and in
\* the order of Object.entries too, the k-th sample of the output was keyed
\* by a time in the k-th bucket of width 2 epsilon around rawData[0].timeStart,
\* so the output has at most one sample per bucket, in increasing time.
C2_OnePerBucketInOrder ==
    /\ enum # NoRec
          => /\ InBuckets(rec.sink, enum.st.taken)
             /\ Len(enum.st.out) = Len(enum.st.taken)
    /\ enum = NoRec => InBuckets(rec.sink, Thinned(rec.sink).taken)
    /\ rec.fresh => Len(rec.sink.data) = Len(enum.st.taken)

\* C2's case: three frames that overlap, the entries visited in an order that
\* is not the ascending one, three samples pushed, the loop over.
C2_Witness ==
    /\ enum # NoRec
    /\ rec.fresh
    /\ Populated(rec.sink) = 3
    /\ rec.sink.rawData[2].timeStart = rec.sink.rawData[1].timeStart + 1
    /\ Len(enum.st.taken) = 3
    /\ Len(Thinned(rec.sink).taken) # 3

\* C3: each run of clearData gives an output at least as long as the run
\* before it, which saw the same frames or fewer of them.
C3_LengthNeverShrinks ==
    [][Len(rec'.sink.data) >= Len(rec.sink.data)]_vars

\* C3's case: clearData has run on three frames, one of them recorded at a
\* whole second (an array index key), and gave a longer output than it gives
\* for the first two frames.
C3_Witness ==
    /\ rec.fresh
    /\ Populated(rec.sink) = 3
    /\ rec.sink.rawData[3].timeStart > rec.sink.rawData[2].timeStart
    /\ \E i \in 1..3 : IsIndexKey(rec.sink.rawData[i].timeStart, rec.sink.sampleRate)
    /\ Len(rec.sink.data) >
          Len(Thinned([rec.sink EXCEPT !.rawData[3] =
                          NewDataSink(rec.sink.sampleRate, rec.sink.bufferLength, 3).rawData[3]]).out)

\* The fixture: capacity 3, frameWidth 2, sampleRate 4, frames at 0 s, 0.5 s
\* and 1.0 s (0, 2 and 4 sample periods).
IsFixture(sink) ==
    /\ sink.sampleRate = 4 /\ sink.bufferLength = 2 /\ sink.maxBufferIndex = 3
    /\ sink.rawData = << [timeStart |-> 0, data |-> <<10, 20>>],
                         [timeStart |-> 2, data |-> <<30, 40>>],
                         [timeStart |-> 4, data |-> <<50, 60>>] >>

\* C4: on the fixture dataMap is {0:10, 0.25:20, 0.5:30, 0.75:40, 1.0:50,
\* 1.25:60} (keys 0..5 in sample periods), the window starts as [-0.25, 0.25],
\* key 0 is pushed first and leaves the window [0.25, 0.75], key 0.25 is
\* pushed second, and the output begins 10, 20.
C4_FixtureBegins ==
    IsFixture(rec.sink) =>
        LET m  == dataMap(rec.sink)
            w0 == Window(rec.sink, 1)
            th == Thinned(rec.sink)
            e  == ObjectEntries(m, rec.sink.sampleRate)
        IN  /\ m.keys = <<0, 1, 2, 3, 4, 5>>
            /\ m.val = <<10, 20, 30, 40, 50, 60>>
            /\ w0.start = -1 /\ w0.end = 1
            /\ e[1].fTime = 0
            /\ ThinStep(w0, e[1], 1).out = <<10>>
            /\ ThinStep(w0, e[1], 1).start = 1
            /\ ThinStep(w0, e[1], 1).end = 3
            /\ th.taken[1] = 0 /\ th.taken[2] = 1
            /\ SubSeq(th.out, 1, 2) = <<10, 20>>
            /\ rec.fresh => SubSeq(rec.sink.data, 1, 2) = <<10, 20>>

\* C4's case: clearData has run on the fixture.
C4_Witness ==
    /\ IsFixture(rec.sink)
    /\ rec.fresh
    /\ rec.sink.data = <<10, 20, 40, 60>>

\* C5: clearData on a collector none of whose frames is populated gives an
\* empty output, for every capacity, frame width and sample rate, the window
\* then being the one around the sentinel -1.
C5_NothingPopulatedNothingOut ==
    Populated(rec.sink) = 0 =>
        /\ Window(rec.sink, 1).start = Sec(-1, rec.sink.sampleRate) - 1
        /\ Window(rec.sink, 1).end = Sec(-1, rec.sink.sampleRate) + 1
        /\ clearData(rec.sink).data = <<>>
        /\ rec.sink.data = <<>>

\* C5's case: clearData has run on a collector of the largest capacity and
\* frame width with nothing populated.
C5_Witness ==
    /\ Populated(rec.sink) = 0
    /\ rec.fresh
    /\ rec.sink.maxBufferIndex = MaxFrames
    /\ rec.sink.bufferLength = BufferLength

====
